---- MODULE Spec2Model ----
(***************************************************************************)
(* Model of periodic-site-watcher: the service worker's wake cycle         *)
(* (onAlarm), storage reconciliation (initializeStorage), the per-target   *)
(* execution (runSite), the install / startup / alarm listeners, and the   *)
(* options page's storage operations (addNewSite, saveAllSites,            *)
(* deleteSite).  chrome.storage.local is a pair of documents (settings,    *)
(* state); every get and every set is one atomic step, and the code that   *)
(* runs between two awaits is part of the step that follows the await.     *)
(***************************************************************************)
EXTENDS Integers, Sequences, FiniteSets, TLC

(***************************************************************************)
(* Bounds of the model.                                                    *)
(***************************************************************************)
\* number of wake cycles (onAlarm invocations) that may be started
MaxCycles == 2
\* number of things the environment may do in one behaviour: let time pass,
\* run a handler of the options page, make a step of an execution fail,
\* close a tab
MaxEvents == 1

(***************************************************************************)
(* Time.  Instants are epoch milliseconds; the model's clock stays within  *)
(* the first days of the epoch (1970-01-01 was a Thursday) so that all     *)
(* arithmetic fits TLC's integers.  Date's local-time accessors are        *)
(* modelled for a zone without offset or daylight-saving changes.          *)
(***************************************************************************)
MsPerSecond == 1000
MsPerMinute == 60 * MsPerSecond
MsPerHour == 60 * MsPerMinute
MsPerDay == 24 * MsPerHour
EpochDay == 4

\* the step by which the model's clock advances
TickSteps == {30 * MsPerMinute, 60 * MsPerMinute}

CharAt(s, i) == SubSeq(s, i, i)

Digits == "0123456789"


\* index of the first occurrence of character c in s from position i on, 0 if none
RECURSIVE IndexFrom(_, _, _)
IndexFrom(s, c, i) ==
  IF i > Len(s) THEN 0
  ELSE IF CharAt(s, i) = c THEN i
  ELSE IndexFrom(s, c, i + 1)

IndexOf(s, c) == IndexFrom(s, c, 1)

DigitVal(c) == IndexOf(Digits, c) - 1

\* Number(str) for a string of decimal digits
RECURSIVE ToNumber(_)
ToNumber(s) ==
  IF Len(s) = 0 THEN 0
  ELSE 10 * ToNumber(SubSeq(s, 1, Len(s) - 1)) + DigitVal(CharAt(s, Len(s)))

\* schedule.at.split(':').map(Number)
ParseAt(at) ==
  LET k == IndexOf(at, ":")
  IN  <<ToNumber(SubSeq(at, 1, k - 1)), ToNumber(SubSeq(at, k + 1, Len(at)))>>

\* a setMinutes(m) that leaves the seconds and milliseconds as they are
SetMinutesOnly(t, m) == (t - (t % MsPerHour)) + m * MsPerMinute + (t % MsPerMinute)

\* Date.prototype.setMinutes(m, 0, 0) on the instant t
SetMinutes(t, m) == (t - (t % MsPerHour)) + m * MsPerMinute

\* Date.prototype.setHours(h, m, 0, 0) on the instant t
SetHours(t, h, m) == (t - (t % MsPerDay)) + h * MsPerHour + m * MsPerMinute

\* Date.prototype.getDay() of the instant t (0 = Sunday)
GetDay(t) == (EpochDay + (t \div MsPerDay)) % 7

computeNextRunAfterSuccess(now, schedule) ==
  IF schedule.type = "hourly" THEN
    LET date == SetMinutes(now, schedule.minute)
    IN  IF date <= now THEN date + MsPerHour ELSE date
  ELSE IF schedule.type = "daily" THEN
    LET hm == ParseAt(schedule.at)
        date == SetHours(now, hm[1], hm[2])
    IN  IF date <= now THEN date + MsPerDay ELSE date
  ELSE IF schedule.type = "weekly" THEN
    LET hm == ParseAt(schedule.at)
        daysToAdd0 == (schedule.dow - GetDay(now) + 7) % 7
        date == SetHours(now, hm[1], hm[2])
        daysToAdd == IF daysToAdd0 = 0 /\ date <= now THEN 7 ELSE daysToAdd0
    IN  date + daysToAdd * MsPerDay
  ELSE now + 60 * 60 * 1000

\* variant: a failed target is due again at once
computeNextRunAtOnce(now) == now

computeNextRunAfterFail(now) == now + 60 * 60 * 1000

(***************************************************************************)
(* Strings.  A string is handled character by character; the operators    *)
(* below do what String.prototype.replace with the redaction pattern,      *)
(* String.prototype.substring and the URL constructor do.                  *)
(***************************************************************************)
UpperAlpha == "ABCDEFGHIJKLMNOPQRSTUVWXYZ"
LowerAlpha == "abcdefghijklmnopqrstuvwxyz"

UpperChars == { CharAt(UpperAlpha, i) : i \in 1..Len(UpperAlpha) }
LowerChars == { CharAt(LowerAlpha, i) : i \in 1..Len(LowerAlpha) }
DigitChars == { CharAt(Digits, i) : i \in 1..Len(Digits) }

\* String.prototype.toLowerCase on one character
LowerOf == [c \in UpperChars |-> CharAt(LowerAlpha, IndexOf(UpperAlpha, c))]

IsUpper(c) == c \in UpperChars
IsAlpha(c) == c \in UpperChars \/ c \in LowerChars
IsDigit(c) == c \in DigitChars

LowerChar(c) == IF c \in UpperChars THEN LowerOf[c] ELSE c

RECURSIVE LowerStr(_)
LowerStr(s) ==
  IF Len(s) = 0 THEN s
  ELSE LowerChar(CharAt(s, 1)) \o LowerStr(SubSeq(s, 2, Len(s)))

\* does the lower-case word w occur in s at position i, ignoring case
MatchesAt(s, i, w) ==
  /\ i + Len(w) - 1 <= Len(s)
  /\ \A j \in 1..Len(w) : LowerChar(CharAt(s, i + j - 1)) = CharAt(w, j)

\* the alternatives of /password|token|secret|key|api[_-]?key/gi, in the
\* order the pattern tries them ([_-]? is greedy)
SecretWords == <<"password", "token", "secret", "key", "api_key", "api-key", "apikey">>

\* length of the pattern's match at position i of s, 0 when there is none
RECURSIVE MatchLenFrom(_, _, _)
MatchLenFrom(s, i, k) ==
  IF k > Len(SecretWords) THEN 0
  ELSE IF MatchesAt(s, i, SecretWords[k]) THEN Len(SecretWords[k])
  ELSE MatchLenFrom(s, i, k + 1)

\* the letters a match can begin with
FirstLetters == { CharAt(SecretWords[k], 1) : k \in 1..Len(SecretWords) }

\* no alternative is tried where the first letter rules a match out
MatchLen(s, i) ==
  IF LowerChar(CharAt(s, i)) \in FirstLetters THEN MatchLenFrom(s, i, 1) ELSE 0

RedactionMarker == "[REDACTED]"

\* the least position from i on at which the pattern matches, 0 when none
NextMatch(s, i) ==
  IF \A p \in i..Len(s) : MatchLen(s, p) = 0 THEN 0
  ELSE CHOOSE p \in i..Len(s) : MatchLen(s, p) > 0 /\ \A q \in i..(p - 1) : MatchLen(s, q) = 0

\* replace(/.../gi, '[REDACTED]') from position i on: the matches are taken
\* from left to right and do not overlap (rest[j] is the result from position
\* j on, upTo[p] the same given that the next match is at p)
Redact(s, i) ==
  LET rest[j \in 1..(Len(s) + 1)] ==
        LET upTo[p \in 0..Len(s)] ==
              IF p = 0 THEN SubSeq(s, j, Len(s))
              ELSE SubSeq(s, j, p - 1) \o RedactionMarker \o rest[p + MatchLen(s, p)]
        IN  upTo[NextMatch(s, j)]
  IN  rest[i]

MaxErrorLen == 100

\* a substring that cuts nothing off
SubstringToTheEnd(s, n) == s

Substring(s, n) == IF Len(s) <= n THEN s ELSE SubSeq(s, 1, n)

\* lines 297-299 of runSite's catch block
SanitizeError(raw) == Substring(Redact(raw, 1), MaxErrorLen)

RECURSIVE StripLeft(_, _)
StripLeft(s, cs) ==
  IF Len(s) > 0 /\ IndexOf(cs, CharAt(s, 1)) > 0
  THEN StripLeft(SubSeq(s, 2, Len(s)), cs) ELSE s

RECURSIVE StripRight(_, _)
StripRight(s, cs) ==
  IF Len(s) > 0 /\ IndexOf(cs, CharAt(s, Len(s))) > 0
  THEN StripRight(SubSeq(s, 1, Len(s) - 1), cs) ELSE s

IsSchemeChar(c) == IsAlpha(c) \/ IsDigit(c) \/ IndexOf("+-.", c) > 0

\* schemes whose URLs must name a host
HostSchemes == {"http", "https", "ftp", "ws", "wss"}

\* new URL(s).protocol, or "" when the constructor throws: the input is
\* stripped of surrounding spaces, must start with a scheme (a letter, then
\* letters, digits, + - . up to the first colon), and for the schemes that
\* need a host the text after the slashes must start with a host character.
UrlProtocol(s) ==
  LET t == StripRight(StripLeft(s, " "), " ")
      k == IndexOf(t, ":")
      scheme == LowerStr(SubSeq(t, 1, k - 1))
      rest == StripLeft(SubSeq(t, k + 1, Len(t)), "/\\")
  IN  IF k <= 1 THEN ""
      ELSE IF ~IsAlpha(CharAt(t, 1)) THEN ""
      ELSE IF \E i \in 1..(k - 1) : ~IsSchemeChar(CharAt(t, i)) THEN ""
      ELSE IF scheme \in HostSchemes
              /\ (Len(rest) = 0 \/ IndexOf(" /?#:", CharAt(rest, 1)) > 0) THEN ""
      ELSE scheme \o ":"

\* validation.js
isValidApiUrl(url) ==
  IF Len(url) = 0 \/ Len(StripRight(StripLeft(url, " "), " ")) = 0 THEN FALSE
  ELSE LET protocol == UrlProtocol(StripRight(StripLeft(url, " "), " "))
       IN  protocol = "http:" \/ protocol = "https:"

(***************************************************************************)
(* Data.                                                                   *)
(***************************************************************************)
\* the target ids the options page may add
Ids == {"a", "b"}

\* code-unit order of the characters ids are made of
CodeOrder == Digits \o UpperAlpha \o "_" \o LowerAlpha

\* x < y in the order Array.prototype.sort() uses for strings
RECURSIVE StrLess(_, _)
StrLess(x, y) ==
  IF Len(y) = 0 THEN FALSE
  ELSE IF Len(x) = 0 THEN TRUE
  ELSE IF CharAt(x, 1) = CharAt(y, 1)
       THEN StrLess(SubSeq(x, 2, Len(x)), SubSeq(y, 2, Len(y)))
       ELSE IndexOf(CodeOrder, CharAt(x, 1)) < IndexOf(CodeOrder, CharAt(y, 1))

SeqToSet(q) == {q[k] : k \in 1..Len(q)}

\* variant: the keys in descending order
RECURSIVE SortKeysDescending(_)
SortKeysDescending(S) ==
  IF S = {} THEN <<>>
  ELSE LET m == CHOOSE x \in S : \A y \in S \ {x} : StrLess(y, x)
       IN  <<m>> \o SortKeysDescending(S \ {m})

\* keys.sort(): the keys in ascending order
RECURSIVE SortKeys(_)
SortKeys(S) ==
  IF S = {} THEN <<>>
  ELSE LET m == CHOOSE x \in S : \A y \in S \ {x} : StrLess(x, y)
       IN  <<m>> \o SortKeys(S \ {m})

RemoveKey(q, k) == SelectSeq(q, LAMBDA x : x # k)

\* a map with key k set to v / with key k deleted
MapSet(f, k, v) == [x \in (DOMAIN f) \cup {k} |-> IF x = k THEN v ELSE f[x]]
MapDel(f, k) == [x \in (DOMAIN f) \ {k} |-> f[x]]
EmptyMap == [x \in {} |-> TRUE]

\* an absent number (a field that is undefined) and an absent tab id (null)
Unset == -1
NoTab == 0

Hourly(m) == [type |-> "hourly", minute |-> m, at |-> "", dow |-> Unset]
Daily(at) == [type |-> "daily", minute |-> Unset, at |-> at, dow |-> Unset]
Weekly(d, at) == [type |-> "weekly", minute |-> Unset, at |-> at, dow |-> d]

\* options.js DEFAULT_SITE (the url plays no part in the model)
DEFAULT_SITE == [enabled |-> TRUE, timeoutSec |-> 30, schedule |-> Hourly(0)]

\* what the user may enter for a site in the options form
FormSites ==
  { [enabled |-> e, timeoutSec |-> 30, schedule |-> Hourly(30)] : e \in BOOLEAN }

DefaultApiUrl == "http://localhost:3000/collect"

\* what the user may enter as the API URL in the options form
FormApiUrls == {"", "https://x"}

\* API URLs a settings document may hold from before the options page
\* validated them; <<>> is "no apiUrl in the document"
StoredApiUrls == {"file:///etc/passwd", "ftp://x", "ws://x", "not a url", "", "http://x"}

\* a RunState entry; fields that are not set hold Unset, "unset" or <<>>
RunState(nextRun, lastStatus, failCount, lastRun, lastError) ==
  [nextRun |-> nextRun, lastStatus |-> lastStatus, failCount |-> failCount,
   lastRun |-> lastRun, lastError |-> lastError]

\* the entry reconciliation creates: { nextRun }
InitialRunState(nextRun) == RunState(nextRun, "unset", Unset, Unset, <<>>)

\* a success entry scheduled like a failure
OkRunStateInAnHour(now, schedule) ==
  RunState(computeNextRunAfterFail(now), "ok", 0, now, <<>>)

\* the entry written on success: { nextRun, lastStatus, failCount, lastRun }
OkRunState(now, schedule) ==
  RunState(computeNextRunAfterSuccess(now, schedule), "ok", 0, now, <<>>)

\* variant: the count starts again at every failure
NextFailCountFromZero(bySite, id) == 1

\* (currentSiteState.failCount || 0) + 1, currentSiteState = bySite[id] || {}
NextFailCount(bySite, id) ==
  IF id \in DOMAIN bySite /\ bySite[id].failCount # Unset
  THEN bySite[id].failCount + 1 ELSE 1

\* variant: a failure record without the message
FailRunStateWithoutError(now, bySite, id, message) ==
  RunState(computeNextRunAfterFail(now), "fail", NextFailCount(bySite, id), now, <<>>)

\* the entry written on failure
FailRunState(now, bySite, id, message) ==
  RunState(computeNextRunAfterFail(now), "fail", NextFailCount(bySite, id), now, <<message>>)

(***************************************************************************)
(* State.                                                                  *)
(***************************************************************************)
VARIABLES
  clock,        \* Date.now()
  settings,     \* chrome.storage.local "settings": exists, apiUrl, order (key order of sites), sites
  state,        \* chrome.storage.local "state": exists, bySite
  alarms,       \* the registered chrome.alarms: name -> next scheduled time
  tabs,         \* ids of the open tabs
  tabSeq,       \* number of tabs created so far (tab ids are never reused)
  boot,         \* the onInstalled / onStartup handler in progress
  installTimer, \* the 2 s timer of onInstalled is pending
  ini,          \* the initializeStorage call of each caller (0: boot handler, c: cycle c)
  cyc,          \* the onAlarm invocations (wake cycles)
  run,          \* the runSite invocations, run[c][k]: cycle c, k-th sorted id
  opt,          \* the options page handler in progress
  events        \* number of things the environment has done so far

vars == <<clock, settings, state, alarms, tabs, tabSeq, boot, installTimer, ini, cyc, run, opt,
          events>>

\* the environment does one more thing
EnvEvent == events < MaxEvents /\ events' = events + 1

\* a step that waits on a tab fails: of itself when the tab is gone, else
\* because the environment makes it
TabFault(tabId) == IF tabId \in tabs THEN EnvEvent ELSE UNCHANGED events

Cycles == 1..MaxCycles
Callers == 0..MaxCycles
Slots == 1..Cardinality(Ids)

AlarmName == "hourly-check"

NoSettings == [exists |-> FALSE, apiUrl |-> <<>>, order |-> <<>>, sites |-> EmptyMap]
\* initializeStorage's defaultSettings = { sites: {} }
DefaultSettings == [exists |-> TRUE, apiUrl |-> <<>>, order |-> <<>>, sites |-> EmptyMap]
NoState == [exists |-> FALSE, bySite |-> EmptyMap]

IdleIni == [pc |-> "idle", settings |-> NoSettings, bySite |-> EmptyMap, now |-> Unset,
            added |-> {}, writes |-> 0]
IdleCycle == [pc |-> "idle", now |-> Unset, sites |-> EmptyMap, bySite |-> EmptyMap,
              ids |-> <<>>, idx |-> 0]
\* the two waits of runSite in detail (lines 155-251), as far as a
\* specification follows them: the tab's load status and the pending
\* onUpdated event; of the readiness wait the flag resolved, the listener, the
\* timer and the pending tabs.get; of the extraction wait the flag resolved,
\* the listener, the pending executeScript, retries, the send timer or call,
\* the deadline timer.  opened, rBy, rLate, sends, failed, answer, answerAt
\* and xEnd record what happened: when the tab was opened, which signal
\* resolved the readiness wait, whether a signal was handled after that, the
\* sendMessage calls made and failed, what became of the
\* collaborator's answer and when it came, when the extraction wait was
\* resolved.
IdleWait == [status |-> "", loadEvent |-> FALSE, opened |-> Unset,
             rResolved |-> FALSE, rListening |-> FALSE, rTimer |-> Unset, rPoll |-> FALSE,
             rBy |-> "", rLate |-> FALSE,
             xResolved |-> FALSE, xListening |-> FALSE, inject |-> FALSE, retries |-> 0,
             send |-> "", sendDue |-> Unset, deadline |-> Unset,
             sends |-> 0, failed |-> 0, answer |-> "", answerAt |-> Unset,
             xEnd |-> Unset]

IdleRun == [pc |-> "idle", id |-> "", now |-> Unset, site |-> DEFAULT_SITE, apiUrl |-> <<>>,
            tabId |-> NoTab, err |-> "", bySite |-> EmptyMap, wait |-> IdleWait,
            rethrow |-> FALSE, failedAt |-> "", fetched |-> FALSE, writes |-> 0, closed |-> FALSE,
            closeFailed |-> FALSE, prevFail |-> Unset, written |-> RunState(Unset, "unset", Unset, Unset, <<>>)]
IdleOpt == [pc |-> "idle", id |-> "", settings |-> NoSettings, bySite |-> EmptyMap]

\* the instant at which the model's clock starts
StartClock == 2 * MsPerHour

\* The first install: the storage is empty and the listener of onInstalled
\* has run up to the get of initializeStorage.
InitInstall ==
  /\ settings = NoSettings
  /\ state = NoState
  /\ alarms = EmptyMap
  /\ boot = [pc |-> "init", reason |-> "install"]

\* A configured installation: targets a and b were added (b first) with the
\* default site, those in off were then disabled; apiUrl is the API URL the
\* settings hold (<<>>: none); the targets in known have the RunState entry
\* of a reconciliation, due now, or for those in late due in an hour.
Configured(apiUrl, known, late, off) ==
  /\ settings = [exists |-> TRUE, apiUrl |-> apiUrl, order |-> <<"b", "a">>,
                 sites |-> [x \in Ids |-> [DEFAULT_SITE EXCEPT !.enabled = x \notin off]]]
  /\ state = [exists |-> TRUE,
              bySite |-> [x \in known |->
                 InitialRunState(computeNextRunAfterSuccess(
                    IF x \in late THEN StartClock ELSE StartClock - MsPerHour,
                    DEFAULT_SITE.schedule))]]

\* the configured installations the model starts from
Installations ==
  { <<<<>>, known, {}, {}>> : known \in {Ids, {"b"}} } \cup
  { <<<<>>, Ids, {"a"}, {}>>, <<<<>>, Ids, {}, {"a"}>> } \cup
  { <<<<"ftp://x">>, Ids, {}, {}>> } \cup
  { <<<<u>>, Ids, {"b"}, {}>> : u \in StoredApiUrls \ {"ftp://x"} }

\* the browser starts, the extension is updated, or the alarm wakes the
\* service worker: the listener of onStartup or of onInstalled (reason
\* update) has run up to the get of initializeStorage, or none runs.  The
\* alarm is registered and due; a browser start or an update may have
\* cleared it.
InitConfigured ==
  \E i \in Installations :
     /\ Configured(i[1], i[2], i[3], i[4])
     /\ \/ /\ boot = [pc |-> "idle", reason |-> "startup"]
           /\ alarms = [x \in {AlarmName} |-> StartClock]
        \/ /\ i = <<<<>>, Ids, {"a"}, {}>>
           /\ \E reason \in {"startup", "update"} : boot = [pc |-> "init", reason |-> reason]
           /\ alarms \in {[x \in {AlarmName} |-> StartClock], EmptyMap}

Init ==
  /\ clock = StartClock
  /\ InitInstall \/ InitConfigured
  /\ tabs = {}
  /\ tabSeq = 0
  /\ installTimer = FALSE
  /\ ini = [o \in Callers |->
              IF o = 0 /\ boot.pc = "init" THEN [IdleIni EXCEPT !.pc = "get"] ELSE IdleIni]
  /\ cyc = [c \in Cycles |-> IdleCycle]
  /\ run = [c \in Cycles |-> [k \in Slots |-> IdleRun]]
  /\ opt = IdleOpt
  /\ events = 0

(***************************************************************************)
(* initializeStorage (service-worker.js 80-108).                           *)
(***************************************************************************)
\* a reconciliation that adds entries without a nextRun
ReconciledWithoutNextRun(sites, bySite, now) ==
  [x \in (DOMAIN bySite) \cup (DOMAIN sites) |->
     IF x \in DOMAIN bySite THEN bySite[x] ELSE InitialRunState(Unset)]

\* lines 96-104: the entries added for the ids of sites that bySite lacks
Reconciled(sites, bySite, now) ==
  [x \in (DOMAIN bySite) \cup (DOMAIN sites) |->
     IF x \in DOMAIN bySite THEN bySite[x]
     ELSE InitialRunState(computeNextRunAfterSuccess(now, sites[x].schedule))]

\* line 81-82 (and the local work of 84-104): the get of both documents
IniGet(o) ==
  /\ ini[o].pc = "get"
  /\ LET s == IF settings.exists THEN settings ELSE DefaultSettings
         b == IF state.exists THEN state.bySite ELSE EmptyMap
     IN  ini' = [ini EXCEPT ![o] =
                   [pc |-> IF settings.exists THEN "setState" ELSE "setSettings",
                    settings |-> s,
                    bySite |-> Reconciled(s.sites, b, clock),
                    now |-> clock,
                    added |-> (DOMAIN s.sites) \ (DOMAIN b),
                    writes |-> 0]]
  /\ UNCHANGED <<clock, settings, state, alarms, tabs, tabSeq, boot, installTimer, cyc, run, opt, events>>

\* line 88: set({ settings: defaultSettings })
IniSetSettings(o) ==
  /\ ini[o].pc = "setSettings"
  /\ settings' = DefaultSettings
  /\ ini' = [ini EXCEPT ![o].pc = "setState"]
  /\ UNCHANGED <<clock, state, alarms, tabs, tabSeq, boot, installTimer, cyc, run, opt, events>>

\* what line 106 writes
IniStateWritten(o) == [exists |-> TRUE, bySite |-> ini[o].bySite]

\* line 106: set({ state: result.state }), then return
IniSetState(o) ==
  /\ ini[o].pc = "setState"
  /\ state' = IniStateWritten(o)
  /\ ini' = [ini EXCEPT ![o].pc = "done", ![o].writes = @ + 1]
  /\ UNCHANGED <<clock, settings, alarms, tabs, tabSeq, boot, installTimer, cyc, run, opt, events>>

(***************************************************************************)
(* The listeners of onInstalled and onStartup (service-worker.js 362-393). *)
(***************************************************************************)
PeriodMs == 60 * MsPerMinute

\* chrome.alarms.create('hourly-check', { periodInMinutes: 60 }): an alarm of
\* that name is replaced
AlarmCreated(now) == MapSet(alarms, AlarmName, now + PeriodMs)

\* variant: the first run is started after every install event
FirstInstallOrUpdate(reason) == TRUE

\* line 375: details.reason === 'install'
FirstInstall(reason) == reason = "install"

\* initializeStorage has returned to the listener
BootAfterInit ==
  /\ boot.pc = "init"
  /\ ini[0].pc = "done"
  /\ ini' = [ini EXCEPT ![0] = IdleIni]
  /\ IF boot.reason = "startup"
     THEN /\ boot' = [boot EXCEPT !.pc = "getAll"]
          /\ UNCHANGED <<alarms, installTimer>>
     ELSE /\ alarms' = AlarmCreated(clock)
          /\ installTimer' = (installTimer \/ FirstInstall(boot.reason))
          /\ boot' = [boot EXCEPT !.pc = "idle"]
  /\ UNCHANGED <<clock, settings, state, tabs, tabSeq, cyc, run, opt, events>>

\* onStartup, lines 387-392: chrome.alarms.getAll() has answered
BootGetAll ==
  /\ boot.pc = "getAll"
  /\ alarms' = IF AlarmName \in DOMAIN alarms THEN alarms ELSE AlarmCreated(clock)
  /\ boot' = [boot EXCEPT !.pc = "idle"]
  /\ UNCHANGED <<clock, settings, state, tabs, tabSeq, installTimer, ini, cyc, run, opt, events>>

(***************************************************************************)
(* onAlarm (service-worker.js 334-358) and what starts it (375-377,        *)
(* 396-400).                                                               *)
(***************************************************************************)
\* cycle slots are used in order
FreeCycle(c) ==
  /\ cyc[c].pc = "idle"
  /\ \A d \in Cycles : d < c => cyc[d].pc # "idle"

\* onAlarm() is called and runs up to the get of initializeStorage
CycleCalled(c) ==
  /\ cyc' = [cyc EXCEPT ![c] = [IdleCycle EXCEPT !.pc = "init"]]
  /\ ini' = [ini EXCEPT ![c] = [IdleIni EXCEPT !.pc = "get"]]

\* the alarm listener's test, line 397
IsHourlyCheck(name) == name = AlarmName

\* a registered alarm is due and fires; a repeating alarm is scheduled again
AlarmFires(c) ==
  /\ FreeCycle(c)
  /\ \E name \in DOMAIN alarms :
       /\ alarms[name] <= clock
       /\ IsHourlyCheck(name)
       /\ alarms' = [alarms EXCEPT ![name] = clock + PeriodMs]
  /\ CycleCalled(c)
  /\ UNCHANGED <<clock, settings, state, tabs, tabSeq, boot, installTimer, run, opt, events>>

\* the timer set by the first install fires
InstallTimerFires(c) ==
  /\ FreeCycle(c)
  /\ installTimer
  /\ installTimer' = FALSE
  /\ CycleCalled(c)
  /\ UNCHANGED <<clock, settings, state, alarms, tabs, tabSeq, boot, run, opt, events>>

\* a selection that does not look at nextRun
SelectedWhenEnabled(sites, bySite, now, id) == sites[id].enabled

\* lines 344-354: is the target executed in this cycle
Selected(sites, bySite, now, id) ==
  /\ sites[id].enabled
  /\ ~(id \in DOMAIN bySite /\ bySite[id].nextRun > now)

\* the first position from k on whose target is selected, Len(ids) + 1 if none
NextSelected(ids, sites, bySite, now, k) ==
  IF \E j \in k..Len(ids) : Selected(sites, bySite, now, ids[j])
  THEN CHOOSE j \in k..Len(ids) :
         /\ Selected(sites, bySite, now, ids[j])
         /\ \A i \in k..(j - 1) : ~Selected(sites, bySite, now, ids[i])
  ELSE Len(ids) + 1

\* runSite(id) is called and runs up to its first await (line 127)
RunCalled(id) == [IdleRun EXCEPT !.pc = "lookup", !.id = id,
                    !.prevFail = IF id \in DOMAIN state.bySite
                                 THEN state.bySite[id].failCount ELSE Unset]

\* the for loop goes on from position k with snapshot q: it calls runSite for
\* the next selected target and awaits it, or ends
LoopFrom(c, q, k) ==
  LET j == NextSelected(q.ids, q.sites, q.bySite, q.now, k)
  IN  IF j <= Len(q.ids)
      THEN /\ cyc' = [cyc EXCEPT ![c] = [q EXCEPT !.pc = "await", !.idx = j]]
           /\ run' = [run EXCEPT ![c][j] = RunCalled(q.ids[j])]
      ELSE /\ cyc' = [cyc EXCEPT ![c] = [q EXCEPT !.pc = "done", !.idx = j]]
           /\ UNCHANGED run

\* lines 337-341: initializeStorage has returned
CycleAfterInit(c) ==
  /\ cyc[c].pc = "init"
  /\ ini[c].pc = "done"
  /\ ini' = [ini EXCEPT ![c] = IdleIni]
  /\ LoopFrom(c, [pc |-> "init", now |-> clock, sites |-> ini[c].settings.sites,
                  bySite |-> ini[c].bySite,
                  ids |-> SortKeys(SeqToSet(ini[c].settings.order)), idx |-> 0], 1)
  /\ UNCHANGED <<clock, settings, state, alarms, tabs, tabSeq, boot, installTimer, opt, events>>

\* runSite(siteId) called without await: the loop goes on at once
AwaitedAtOnce(r) == TRUE

\* line 356: await runSite(siteId) lets the loop go on once runSite is over
Awaited(r) == r.pc \in {"returned", "threw"}

CycleResume(c) ==
  /\ cyc[c].pc = "await"
  /\ Awaited(run[c][cyc[c].idx])
  /\ IF run[c][cyc[c].idx].pc = "threw"
     THEN /\ cyc' = [cyc EXCEPT ![c].pc = "aborted"]
          /\ UNCHANGED run
     ELSE LoopFrom(c, cyc[c], cyc[c].idx + 1)
  /\ UNCHANGED <<clock, settings, state, alarms, tabs, tabSeq, boot, installTimer, ini, opt, events>>

\* time passes
Tick ==
  /\ EnvEvent
  /\ \E d \in TickSteps : clock' = clock + d
  /\ UNCHANGED <<settings, state, alarms, tabs, tabSeq, boot, installTimer, ini, cyc, run, opt>>

(***************************************************************************)
(* runSite (service-worker.js 126-320).  Besides the function's locals a   *)
(* run records what it did: failedAt (the step that failed), fetched (the  *)
(* network call was issued), writes and written (its writes of its         *)
(* target's RunState), closed (tabs.remove was called), closeFailed (it     *)
(* rejected), prevFail (the failCount stored when it was called).          *)
(***************************************************************************)
\* the steps whose exceptions the catch of lines 149-289 receives
TrySteps == {"create", "ready", "inject", "send", "extract", "deadline",
             "validate", "fetch", "status"}

\* a try block that ends before the submission call
CaughtBeforeFetch(step) == step \in TrySteps \ {"fetch", "status"}

Caught(step) == step \in TrySteps

\* an exception with this message is thrown at this step
Throw(r, step, message) ==
  IF Caught(step)
  THEN [r EXCEPT !.pc = "catchGet", !.failedAt = step, !.err = message]
  ELSE [r EXCEPT !.pc = "threw", !.failedAt = step, !.err = message]

\* runSite is over: it returns, or the exception its catch block could not
\* record leaves it
Return(r) == [r EXCEPT !.pc = IF r.rethrow THEN "threw" ELSE "returned",
                       !.bySite = EmptyMap]

\* a finally block that does not call tabs.remove
FinallyWithoutRemove(r) == Return(r)

\* line 312: the finally block calls tabs.remove only for an opened tab
Finally(r) == IF r.tabId # NoTab THEN [r EXCEPT !.pc = "closing"] ELSE Return(r)

NotFoundMessage == "Site not found in settings"

\* lines 127-150: the get of line 127 has answered
RunLookup(c, k) ==
  /\ run[c][k].pc = "lookup"
  /\ LET r == run[c][k]
     IN  run' = [run EXCEPT ![c][k] =
           IF ~settings.exists THEN [r EXCEPT !.pc = "threw"]
           ELSE IF r.id \notin DOMAIN settings.sites
           THEN [r EXCEPT !.pc = "nfGet", !.now = clock, !.failedAt = "lookup",
                          !.err = NotFoundMessage]
           ELSE [r EXCEPT !.pc = "create", !.now = clock,
                          !.site = settings.sites[r.id], !.apiUrl = settings.apiUrl]]
  /\ UNCHANGED <<clock, settings, state, alarms, tabs, tabSeq, boot, installTimer, ini, cyc, opt, events>>

\* a get('state') has answered (lines 133, 278, 292).  Without a state
\* document currentState.state.bySite throws: out of runSite in the
\* not-found branch, else into the catch block, whose own get then throws
\* the same way, so that the exception leaves runSite after the finally block.
RunGetState(c, k, from, to) ==
  /\ run[c][k].pc = from
  /\ run' = [run EXCEPT ![c][k] =
       IF state.exists THEN [@ EXCEPT !.pc = to, !.bySite = state.bySite]
       ELSE IF from = "nfGet" THEN [@ EXCEPT !.pc = "threw"]
       ELSE Finally([@ EXCEPT !.rethrow = TRUE])]
  /\ UNCHANGED <<clock, settings, state, alarms, tabs, tabSeq, boot, installTimer, ini, cyc, opt, events>>

RunNotFoundGet(c, k) == RunGetState(c, k, "nfGet", "nfSet")
RunOkGet(c, k) == RunGetState(c, k, "okGet", "okSet")
RunCatchGet(c, k) == RunGetState(c, k, "catchGet", "catchSet")

\* set({ state: currentState.state }) with the target's entry replaced
RunSetState(c, k, entry, inTry) ==
  /\ state' = [exists |-> TRUE, bySite |-> MapSet(run[c][k].bySite, run[c][k].id, entry)]
  /\ run' = [run EXCEPT ![c][k] =
       LET r == [@ EXCEPT !.writes = @ + 1, !.written = entry]
       IN  IF inTry THEN Finally(r) ELSE Return(r)]
  /\ UNCHANGED <<clock, settings, alarms, tabs, tabSeq, boot, installTimer, ini, cyc, opt, events>>

\* lines 135-143
RunNotFoundSet(c, k) ==
  /\ run[c][k].pc = "nfSet"
  /\ RunSetState(c, k,
       FailRunState(run[c][k].now, run[c][k].bySite, run[c][k].id, NotFoundMessage),
       FALSE)

\* lines 279-285
RunOkSet(c, k) ==
  /\ run[c][k].pc = "okSet"
  /\ RunSetState(c, k, OkRunState(run[c][k].now, run[c][k].site.schedule), TRUE)

\* lines 297-308
RunCatchSet(c, k) ==
  /\ run[c][k].pc = "catchSet"
  /\ RunSetState(c, k,
       FailRunState(run[c][k].now, run[c][k].bySite, run[c][k].id,
                    SanitizeError(run[c][k].err)),
       TRUE)

\* messages of the errors the browser reports
CreateErrors == {"No current window"}
InjectErrors == {"Cannot access contents of the page"}
SendErrors == {"Could not establish connection. Receiving end does not exist."}
FetchErrors == {"Failed to fetch"}
\* error texts the extraction collaborator may answer with
CollectErrors == {"boom"}
\* non-2xx answers of the submission endpoint: status and statusText
BadStatuses == {<<"500", "Internal Server Error">>}

\* line 150: tabs.create has answered with a new tab
RunCreate(c, k) ==
  /\ run[c][k].pc = "create"
  /\ tabSeq' = tabSeq + 1
  /\ tabs' = tabs \cup {tabSeq + 1}
  /\ run' = [run EXCEPT ![c][k].pc = "ready", ![c][k].tabId = tabSeq + 1]
  /\ UNCHANGED <<clock, settings, state, alarms, boot, installTimer, ini, cyc, opt, events>>

\* line 150: tabs.create has failed
RunCreateFails(c, k) ==
  /\ EnvEvent
  /\ run[c][k].pc = "create"
  /\ \E e \in CreateErrors : run' = [run EXCEPT ![c][k] = Throw(@, "create", e)]
  /\ UNCHANGED <<clock, settings, state, alarms, tabs, tabSeq, boot, installTimer, ini, cyc, opt>>

\* lines 155-189: the tab has reported status complete
RunReady(c, k) ==
  /\ run[c][k].pc = "ready"
  /\ run[c][k].tabId \in tabs
  /\ run' = [run EXCEPT ![c][k].pc = "extract"]
  /\ UNCHANGED <<clock, settings, state, alarms, tabs, tabSeq, boot, installTimer, ini, cyc, opt, events>>

\* lines 158-164: the readiness timer has fired first
RunReadyTimeout(c, k) ==
  /\ TabFault(run[c][k].tabId)
  /\ run[c][k].pc = "ready"
  /\ run' = [run EXCEPT ![c][k] =
       Throw(@, "ready", "Timeout after " \o ToString(@.site.timeoutSec) \o " seconds")]
  /\ UNCHANGED <<clock, settings, state, alarms, tabs, tabSeq, boot, installTimer, ini, cyc, opt>>

\* the ways the extraction step of lines 193-251 rejects
ExtractFailures ==
  { <<"extract", e>> : e \in CollectErrors } \cup
  { <<"inject", "Failed to inject content script: " \o e>> : e \in InjectErrors } \cup
  { <<"send", "Failed to send message to content script: " \o e>> : e \in SendErrors } \cup
  { <<"deadline", "Content script timeout">> }

RunExtractFails(c, k) ==
  /\ TabFault(run[c][k].tabId)
  /\ run[c][k].pc = "extract"
  /\ \E f \in ExtractFailures :
       /\ f[1] = "extract" => run[c][k].tabId \in tabs
       /\ run' = [run EXCEPT ![c][k] = Throw(@, f[1], f[2])]
  /\ UNCHANGED <<clock, settings, state, alarms, tabs, tabSeq, boot, installTimer, ini, cyc, opt>>

\* line 253: settings.apiUrl || 'http://localhost:3000/collect'
EffectiveApiUrl(a) == IF a = <<>> \/ a[1] = "" THEN DefaultApiUrl ELSE a[1]

\* a check that only asks whether the URL parses
EndpointAcceptedIfParsed(u) == UrlProtocol(u) # ""

\* lines 257-264: does the check let the URL pass
EndpointAccepted(u) == UrlProtocol(u) = "http:" \/ UrlProtocol(u) = "https:"

\* lines 203-213 and 253-272: a COLLECT_RESULT message with a payload has come
\* from the tab; the endpoint is checked and, if it passes, fetch is called
RunExtractPayload(c, k) ==
  /\ run[c][k].pc = "extract"
  /\ run[c][k].tabId \in tabs
  /\ LET u == EffectiveApiUrl(run[c][k].apiUrl)
     IN  run' = [run EXCEPT ![c][k] =
           IF EndpointAccepted(u)
           THEN [@ EXCEPT !.pc = "fetch", !.fetched = TRUE]
           ELSE Throw(@, "validate", "Invalid API URL format: " \o u)]
  /\ UNCHANGED <<clock, settings, state, alarms, tabs, tabSeq, boot, installTimer, ini, cyc, opt, events>>

\* lines 266-276: the endpoint has answered with a 2xx status
RunFetchOk(c, k) ==
  /\ run[c][k].pc = "fetch"
  /\ run' = [run EXCEPT ![c][k].pc = "okGet"]
  /\ UNCHANGED <<clock, settings, state, alarms, tabs, tabSeq, boot, installTimer, ini, cyc, opt, events>>

\* lines 266-276: fetch has rejected, or the status is not 2xx
RunFetchFails(c, k) ==
  /\ EnvEvent
  /\ run[c][k].pc = "fetch"
  /\ \/ \E e \in FetchErrors : run' = [run EXCEPT ![c][k] = Throw(@, "fetch", e)]
     \/ \E st \in BadStatuses :
          run' = [run EXCEPT ![c][k] =
                    Throw(@, "status", "API returned " \o st[1] \o ": " \o st[2])]
  /\ UNCHANGED <<clock, settings, state, alarms, tabs, tabSeq, boot, installTimer, ini, cyc, opt>>

\* variant: the rejection of tabs.remove is not caught
RemoveRejectsUncaught(r) == [r EXCEPT !.closed = TRUE, !.closeFailed = TRUE, !.rethrow = TRUE]

\* line 316: the catch around tabs.remove only logs
RemoveRejected(r) == [r EXCEPT !.closed = TRUE, !.closeFailed = TRUE]

\* lines 312-318: tabs.remove has answered; a tab that is gone makes it fail,
\* which is logged
RunClose(c, k) ==
  /\ run[c][k].pc = "closing"
  /\ tabs' = tabs \ {run[c][k].tabId}
  /\ run' = [run EXCEPT ![c][k] =
       Return(IF @.tabId \in tabs THEN [@ EXCEPT !.closed = TRUE] ELSE RemoveRejected(@))]
  /\ UNCHANGED <<clock, settings, state, alarms, tabSeq, boot, installTimer, ini, cyc, opt, events>>

\* the user closes a tab
UserClosesTab ==
  /\ EnvEvent
  /\ \E t \in tabs : tabs' = tabs \ {t}
  /\ UNCHANGED <<clock, settings, state, alarms, tabSeq, boot, installTimer, ini, cyc, run, opt>>

(***************************************************************************)
(* The options page (options.js): addNewSite, saveAllSites, deleteSite.    *)
(* One handler runs at a time.                                             *)
(***************************************************************************)
\* result.settings || { sites: {} }
SettingsOrEmpty == IF settings.exists THEN settings ELSE DefaultSettings

\* addNewSite, lines 379-396: the get has answered and the id is new
OptAddGet(id) ==
  /\ EnvEvent
  /\ opt.pc = "idle"
  /\ id \notin DOMAIN SettingsOrEmpty.sites
  /\ opt' = [opt EXCEPT !.pc = "addSet", !.id = id,
               !.settings = [SettingsOrEmpty EXCEPT
                               !.order = Append(@, id),
                               !.sites = MapSet(@, id, DEFAULT_SITE)]]
  /\ UNCHANGED <<clock, settings, state, alarms, tabs, tabSeq, boot, installTimer, ini, cyc, run>>

\* a set({ settings }) of the options page (lines 348, 397)
OptSetSettings(from, to) ==
  /\ opt.pc = from
  /\ settings' = opt.settings
  /\ opt' = IF to = "idle" THEN IdleOpt ELSE [opt EXCEPT !.pc = to]
  /\ UNCHANGED <<clock, state, alarms, tabs, tabSeq, boot, installTimer, ini, cyc, run, events>>

OptAddSet == OptSetSettings("addSet", "idle")

\* deleteSite, lines 409-419: the get of both documents has answered
OptDeleteGet(id) ==
  /\ EnvEvent
  /\ opt.pc = "idle"
  /\ id \in DOMAIN SettingsOrEmpty.sites
  /\ opt' = [opt EXCEPT !.pc = "delSet", !.id = id,
               !.settings = [SettingsOrEmpty EXCEPT
                               !.order = RemoveKey(@, id),
                               !.sites = MapDel(@, id)],
               !.bySite = MapDel(state.bySite, id)]
  /\ UNCHANGED <<clock, settings, state, alarms, tabs, tabSeq, boot, installTimer, ini, cyc, run>>

\* deleteSite, line 421: set({ settings, state })
OptDeleteSet ==
  /\ opt.pc = "delSet"
  /\ settings' = opt.settings
  /\ state' = [exists |-> TRUE, bySite |-> opt.bySite]
  /\ opt' = IdleOpt
  /\ UNCHANGED <<clock, alarms, tabs, tabSeq, boot, installTimer, ini, cyc, run, events>>

\* line 272: apiUrlInput.value.trim() || 'http://localhost:3000/collect'
FormApiUrl(input) ==
  LET t == StripRight(StripLeft(input, " "), " ")
  IN  IF t = "" THEN DefaultApiUrl ELSE t

\* lines 272-277: the API URLs saveAllSites stores (others end it with an alert)
AcceptedFormApiUrls == { FormApiUrl(u) : u \in { v \in FormApiUrls : isValidApiUrl(FormApiUrl(v)) } }

\* saveAllSites, lines 266-346: the get has answered, the form is valid
OptSaveGet ==
  /\ EnvEvent
  /\ opt.pc = "idle"
  /\ \E u \in AcceptedFormApiUrls, f \in [DOMAIN SettingsOrEmpty.sites -> FormSites] :
       opt' = [opt EXCEPT !.pc = "saveSet",
                 !.settings = [SettingsOrEmpty EXCEPT !.apiUrl = <<u>>, !.sites = f]]
  /\ UNCHANGED <<clock, settings, state, alarms, tabs, tabSeq, boot, installTimer, ini, cyc, run>>

OptSaveSet == OptSetSettings("saveSet", "saveGetState")

\* saveAllSites, lines 352-365: the get('state') has answered
OptSaveGetState ==
  /\ opt.pc = "saveGetState"
  /\ opt' = [opt EXCEPT !.pc = "saveSetState",
               !.bySite = Reconciled(opt.settings.sites,
                                     IF state.exists THEN state.bySite ELSE EmptyMap,
                                     clock)]
  /\ UNCHANGED <<clock, settings, state, alarms, tabs, tabSeq, boot, installTimer, ini, cyc, run, events>>

\* saveAllSites, line 367: set({ state })
OptSaveSetState ==
  /\ opt.pc = "saveSetState"
  /\ state' = [exists |-> TRUE, bySite |-> opt.bySite]
  /\ opt' = IdleOpt
  /\ UNCHANGED <<clock, settings, alarms, tabs, tabSeq, boot, installTimer, ini, cyc, run, events>>

(***************************************************************************)
(* The system.                                                             *)
(***************************************************************************)
Next ==
  \/ Tick
  \/ BootAfterInit
  \/ BootGetAll
  \/ \E o \in Callers : IniGet(o)
  \/ \E o \in Callers : IniSetSettings(o)
  \/ \E o \in Callers : IniSetState(o)
  \/ \E c \in Cycles : AlarmFires(c)
  \/ \E c \in Cycles : InstallTimerFires(c)
  \/ \E c \in Cycles : CycleAfterInit(c)
  \/ \E c \in Cycles : CycleResume(c)
  \/ \E c \in Cycles, k \in Slots : RunLookup(c, k)
  \/ \E c \in Cycles, k \in Slots : RunNotFoundGet(c, k)
  \/ \E c \in Cycles, k \in Slots : RunNotFoundSet(c, k)
  \/ \E c \in Cycles, k \in Slots : RunCreate(c, k)
  \/ \E c \in Cycles, k \in Slots : RunCreateFails(c, k)
  \/ \E c \in Cycles, k \in Slots : RunReady(c, k)
  \/ \E c \in Cycles, k \in Slots : RunReadyTimeout(c, k)
  \/ \E c \in Cycles, k \in Slots : RunExtractPayload(c, k)
  \/ \E c \in Cycles, k \in Slots : RunExtractFails(c, k)
  \/ \E c \in Cycles, k \in Slots : RunFetchOk(c, k)
  \/ \E c \in Cycles, k \in Slots : RunFetchFails(c, k)
  \/ \E c \in Cycles, k \in Slots : RunOkGet(c, k)
  \/ \E c \in Cycles, k \in Slots : RunOkSet(c, k)
  \/ \E c \in Cycles, k \in Slots : RunCatchGet(c, k)
  \/ \E c \in Cycles, k \in Slots : RunCatchSet(c, k)
  \/ \E c \in Cycles, k \in Slots : RunClose(c, k)
  \/ UserClosesTab
  \/ \E id \in Ids : OptAddGet(id)
  \/ OptAddSet
  \/ \E id \in Ids : OptDeleteGet(id)
  \/ OptDeleteSet
  \/ OptSaveGet
  \/ OptSaveSet
  \/ OptSaveGetState
  \/ OptSaveSetState

Spec == Init /\ [][Next]_vars

(***************************************************************************)
(* Properties of the scheduler (onAlarm) and the execution engine          *)
(* (runSite).                                                              *)
(***************************************************************************)
\* is the target at position j of cycle c's sorted ids due in the snapshot
\* the cycle took: enabled, and its nextRun unset or not after the cycle's now
DueInSnapshot(c, j) ==
  LET id == cyc[c].ids[j]
  IN  /\ cyc[c].sites[id].enabled = TRUE
      /\ \/ id \notin DOMAIN cyc[c].bySite
         \/ cyc[c].bySite[id].nextRun = Unset
         \/ cyc[c].bySite[id].nextRun <= cyc[c].now

\* an execution that has been started and is not over
InFlight(r) == r.pc \notin {"idle", "returned", "threw"}

\* C1: failure isolation.  No execution throws into the loop of onAlarm and
\* no cycle is cut short; an execution that failed, at whatever step, has
\* returned only after writing one fail record for its target; and when the
\* loop has ended, every target that was due in the cycle's snapshot has been
\* executed.
C1_FailureIsolation ==
  \A c \in Cycles :
     /\ cyc[c].pc # "aborted"
     /\ \A k \in Slots :
          /\ run[c][k].pc # "threw"
          /\ (run[c][k].pc = "returned" /\ run[c][k].failedAt # "")
               => (run[c][k].writes = 1 /\ run[c][k].written.lastStatus = "fail")
     /\ cyc[c].pc = "done"
          => \A j \in 1..Len(cyc[c].ids) :
                DueInSnapshot(c, j) => run[c][j].pc = "returned"

\* a cycle has ended in which the first target's submission failed and the
\* second target was executed after it
C1_Witness ==
  \E c \in Cycles :
     /\ cyc[c].pc = "done"
     /\ run[c][1].failedAt \in {"fetch", "status"}
     /\ run[c][1].written.lastStatus = "fail"
     /\ run[c][2].pc = "returned"
     /\ run[c][2].written.lastStatus = "ok"

\* C2: strictly sequential executions within a cycle.  When a cycle has
\* started the execution of a target, the execution of every target it
\* started before has returned, after writing its outcome and, if it opened
\* a tab, after calling tabs.remove for it.
C2_Sequential ==
  \A c \in Cycles : \A j \in Slots, k \in Slots :
     (j < k /\ run[c][j].pc # "idle" /\ run[c][k].pc # "idle")
       => /\ run[c][j].pc = "returned"
          /\ run[c][j].writes = 1
          /\ run[c][j].tabId # NoTab => run[c][j].closed

\* the second target of a cycle is being executed after the first
C2_Witness ==
  \E c \in Cycles :
     /\ run[c][1].pc = "returned"
     /\ run[c][1].tabId # NoTab
     /\ InFlight(run[c][2])

\* C3: no concurrent executions.  In every reachable state at most one
\* execution is in flight and at most one tab is open.
C3_NoConcurrentExecutions ==
  /\ Cardinality({ p \in Cycles \X Slots : InFlight(run[p[1]][p[2]]) }) <= 1
  /\ Cardinality(tabs) <= 1

\* C4: not-before selection.  Of the targets the loop of a cycle has passed,
\* exactly those were executed that are enabled in the cycle's snapshot with
\* a nextRun that is unset or not after the cycle's now; the targets the loop
\* has not reached are not executed.
C4_NotBeforeSelection ==
  \A c \in Cycles :
     cyc[c].pc \in {"await", "done"}
       => \A j \in 1..Len(cyc[c].ids) :
             IF j <= cyc[c].idx
             THEN (run[c][j].pc # "idle") <=> DueInSnapshot(c, j)
             ELSE run[c][j].pc = "idle"

\* a cycle has ended that passed over a target due only later and executed
\* one that had been due for half an hour
C4_Witness ==
  \E c \in Cycles : \E j \in 1..Len(cyc[c].ids), k \in 1..Len(cyc[c].ids) :
     /\ cyc[c].pc = "done"
     /\ cyc[c].bySite[cyc[c].ids[j]].nextRun > cyc[c].now
     /\ run[c][j].pc = "idle"
     /\ cyc[c].bySite[cyc[c].ids[k]].nextRun < cyc[c].now
     /\ run[c][k].pc = "returned"

\* C5: success record.  An execution that passed every step has written for
\* its target exactly nextRun = computeNextRunAfterSuccess(now, schedule),
\* lastStatus ok, failCount 0, lastRun = now and no lastError.
C5_SuccessRecord ==
  \A c \in Cycles, k \in Slots :
     (run[c][k].writes > 0 /\ run[c][k].failedAt = "")
       => /\ run[c][k].writes = 1
          /\ run[c][k].written =
               [nextRun |-> computeNextRunAfterSuccess(run[c][k].now,
                                                       run[c][k].site.schedule),
                lastStatus |-> "ok", failCount |-> 0, lastRun |-> run[c][k].now,
                lastError |-> <<>>]

\* a successful execution has returned; its record is due at the top of the
\* next hour
C5_Witness ==
  \E c \in Cycles, k \in Slots :
     /\ run[c][k].pc = "returned"
     /\ run[c][k].fetched
     /\ run[c][k].failedAt = ""
     /\ run[c][k].written.lastStatus = "ok"
     /\ run[c][k].written.nextRun = StartClock + MsPerHour

\* C6: failure record.  An execution that failed has written for its target
\* nextRun = now + 3,600,000, lastStatus fail, failCount = the failCount the
\* store held when the execution was started plus 1 (0 if none), lastRun =
\* now and lastError = the sanitized message.
C6_FailureRecord ==
  \A c \in Cycles, k \in Slots :
     (run[c][k].writes > 0 /\ run[c][k].failedAt # "")
       => run[c][k].written =
            [nextRun |-> run[c][k].now + 3600000,
             lastStatus |-> "fail",
             failCount |-> (IF run[c][k].prevFail = Unset THEN 0
                            ELSE run[c][k].prevFail) + 1,
             lastRun |-> run[c][k].now,
             lastError |-> <<SanitizeError(run[c][k].err)>>]

\* C7: guaranteed session release.  An execution that is over has called
\* tabs.remove for the tab it opened and that tab is not open; every open
\* tab belongs to an execution in flight; no two executions have had the
\* same tab.
C7_SessionRelease ==
  /\ \A c \in Cycles, k \in Slots :
       (run[c][k].pc \in {"returned", "threw"} /\ run[c][k].tabId # NoTab)
         => (run[c][k].closed /\ run[c][k].tabId \notin tabs)
  /\ \A t \in tabs :
       \E c \in Cycles, k \in Slots : InFlight(run[c][k]) /\ run[c][k].tabId = t
  /\ \A p \in Cycles \X Slots, q \in Cycles \X Slots :
       (p # q /\ run[p[1]][p[2]].tabId # NoTab)
         => run[p[1]][p[2]].tabId # run[q[1]][q[2]].tabId

\* an execution that opened a tab and then failed has returned, and no tab
\* is open
C7_Witness ==
  \E c \in Cycles, k \in Slots :
     /\ run[c][k].pc = "returned"
     /\ run[c][k].failedAt # ""
     /\ run[c][k].tabId # NoTab
     /\ run[c][k].closed
     /\ tabs = {}

C9_ReconciliationOnlyAdds ==
  [][\A o \in Callers :
       (ini[o].pc = "setState" /\ ini'[o].pc = "done")
         => /\ \A id \in DOMAIN state.bySite :
                 id \in DOMAIN state'.bySite /\ state'.bySite[id] = state.bySite[id]
            /\ \A id \in ini[o].added :
                 state'.bySite[id] =
                   [nextRun |-> computeNextRunAfterSuccess(
                                   ini[o].now, ini[o].settings.sites[id].schedule),
                    lastStatus |-> "unset", failCount |-> Unset, lastRun |-> Unset,
                    lastError |-> <<>>]]_vars

\* C10: reconciliation is idempotent.  A run of initializeStorage whose get
\* found an entry in state for every id in settings, as a second run does
\* when nothing changed since the first, performs no write on the state store.
C10_NoWriteWhenNothingToAdd ==
  \A o \in Callers :
     (ini[o].pc = "done" /\ ini[o].added = {}) => ini[o].writes = 0

(***************************************************************************)
(* The schedule calculator on its own: the browser starts with one target  *)
(* configured that has no RunState yet, at an instant and with a schedule  *)
(* drawn from the sets below, and the reconciliation of the onStartup      *)
(* listener computes the target's first nextRun (line 101).                *)
(***************************************************************************)
\* the instants: every day of a week, at seconds 0 and 1 of some minutes
CalcNows ==
  { d * MsPerDay + h * MsPerHour + m * MsPerMinute + sec * MsPerSecond :
      d \in 0..6, h \in {0, 9, 10, 23}, m \in {0, 1, 30, 59}, sec \in {0, 1} }

\* the valid schedules
CalcSchedules ==
  { Hourly(m) : m \in {0, 30, 59} } \cup
  { Daily(at) : at \in {"00:00", "09:00", "23:59"} } \cup
  { Weekly(d, "10:00") : d \in 0..6 } \cup
  { Weekly(3, "00:00"), Weekly(0, "23:59") }

InitCalc ==
  /\ clock \in CalcNows
  /\ \E sch \in CalcSchedules :
       settings = [exists |-> TRUE, apiUrl |-> <<>>, order |-> <<"a">>,
                   sites |-> [x \in {"a"} |-> [DEFAULT_SITE EXCEPT !.schedule = sch]]]
  /\ state = [exists |-> TRUE, bySite |-> EmptyMap]
  /\ alarms \in {EmptyMap, [x \in {AlarmName} |-> clock]}
  /\ boot = [pc |-> "init", reason |-> "startup"]
  /\ tabs = {}
  /\ tabSeq = 0
  /\ installTimer = FALSE
  /\ ini = [o \in Callers |-> IF o = 0 THEN [IdleIni EXCEPT !.pc = "get"] ELSE IdleIni]
  /\ cyc = [c \in Cycles |-> IdleCycle]
  /\ run = [c \in Cycles |-> [k \in Slots |-> IdleRun]]
  /\ opt = IdleOpt
  /\ events = 0

NextCalc ==
  \/ IniGet(0)
  \/ IniSetState(0)
  \/ BootAfterInit
  \/ BootGetAll

SpecCalc == InitCalc /\ [][NextCalc]_vars

\* is the instant t on the slot of the schedule: that minute of an hour,
\* that time of a day, that time on that weekday (1970-01-01 was a Thursday),
\* with seconds and milliseconds zero
OnSlot(t, schedule) ==
  LET hm == ParseAt(schedule.at)
  IN  IF schedule.type = "hourly" THEN t % 3600000 = schedule.minute * 60000
      ELSE /\ t % 86400000 = hm[1] * 3600000 + hm[2] * 60000
           /\ schedule.type = "weekly" => (4 + (t \div 86400000)) % 7 = schedule.dow

\* the distance between two neighbouring instants on a schedule's slot
SlotPeriod(schedule) ==
  IF schedule.type = "hourly" THEN 3600000
  ELSE IF schedule.type = "daily" THEN 86400000 ELSE 7 * 86400000

\* C11: schedule calculator.  The nextRun that reconciliation computes for a
\* new target from now and the target's schedule is strictly greater than
\* now, lies on the schedule's slot with seconds and milliseconds zero, and
\* is the earliest such instant: the slot instant one period before it is
\* not after now.
C11_EarliestSlotAfterNow ==
  \A id \in ini[0].added :
     LET now == ini[0].now
         schedule == ini[0].settings.sites[id].schedule
         next == ini[0].bySite[id].nextRun
     IN  /\ next > now
         /\ OnSlot(next, schedule)
         /\ next - SlotPeriod(schedule) <= now

\* on a Wednesday at 10:01:01 a target due on Wednesdays at 10:00 was given
\* the next Wednesday, and the store holds it
C11_Witness ==
  /\ ini[0].pc = "done"
  /\ ini[0].now = 6 * MsPerDay + 10 * MsPerHour + MsPerMinute + MsPerSecond
  /\ ini[0].settings.sites["a"].schedule = Weekly(3, "10:00")
  /\ state.bySite["a"].nextRun = 13 * MsPerDay + 10 * MsPerHour

(***************************************************************************)
(* One execution in detail: runSite with the two waits of lines 155-251    *)
(* followed callback by callback.  The cycle has called runSite for its    *)
(* target a and awaits it.  Timers fire when they are due: time does not   *)
(* pass beyond a timer that is armed.                                      *)
(***************************************************************************)
\* how long the clock runs on while no timer is armed, in seconds
MaxEngineSec == 10

\* lines 224, 230 and 237, 250
maxRetries == 5
RetryDelayMs == 50
MarginSec == 5

\* error texts the extraction collaborator may answer with
EngineCollectErrors ==
  { "boom", "bad apikey=abc123 Token x-api-key PASSWORD secretKey",
    "token 0123456789 0123456789 0123456789 0123456789 0123456789 0123456789 0123456789 0123456789 key tail 0123456789" }

\* how the execution starts: the target's timeoutSec (saveAllSites accepts
\* 1..300; 3 is below the margin of line 250 and 12 above it), the apiUrl of
\* the settings, whether deleteSite has removed the target since the cycle
\* took its snapshot, the failCount of the target's RunState (Unset: never
\* run), and whether the state document holds that RunState (deleteSite
\* removes it, and an initializeStorage that read the state before the removal
\* writes it back at line 94)
EngineStarts ==
  { <<3, <<>>, FALSE, Unset, TRUE>>, <<12, <<>>, FALSE, Unset, TRUE>>,
    <<12, <<>>, TRUE, Unset, FALSE>>, <<3, <<>>, FALSE, 2, TRUE>>,
    <<12, <<>>, TRUE, 2, TRUE>> }

InitEngine ==
  /\ clock = StartClock
  /\ \E i \in EngineStarts :
       LET t == i[1]
           u == i[2]
           gone == i[3]
           fails == i[4]
           kept == i[5]
           site == [x \in {"a"} |-> [DEFAULT_SITE EXCEPT !.timeoutSec = t]]
           entry == [x \in {"a"} |->
                       IF fails = Unset THEN InitialRunState(StartClock)
                       ELSE RunState(StartClock, "fail", fails, StartClock - MsPerHour,
                                     <<"boom">>)]
       IN  /\ settings = [exists |-> TRUE, apiUrl |-> u,
                          order |-> IF gone THEN <<>> ELSE <<"a">>,
                          sites |-> IF gone THEN EmptyMap ELSE site]
           /\ state = [exists |-> TRUE, bySite |-> IF kept THEN entry ELSE EmptyMap]
           /\ cyc = [c \in Cycles |->
                       IF c = 1
                       THEN [pc |-> "await", now |-> StartClock, sites |-> site,
                             bySite |-> entry, ids |-> <<"a">>, idx |-> 1]
                       ELSE IdleCycle]
  /\ run = [c \in Cycles |-> [k \in Slots |->
              IF c = 1 /\ k = 1 THEN RunCalled("a") ELSE IdleRun]]
  /\ alarms = [x \in {AlarmName} |-> StartClock + PeriodMs]
  /\ boot = [pc |-> "idle", reason |-> "startup"]
  /\ tabs = {}
  /\ tabSeq = 0
  /\ installTimer = FALSE
  /\ ini = [o \in Callers |-> IdleIni]
  /\ opt = IdleOpt
  /\ events = 0

\* a retry test that also lets a sixth retry pass
MayRetryOnceMore(w) == w.retries <= maxRetries /\ ~w.xResolved

\* line 228: retries < maxRetries && !resolved
MayRetry(w) == w.retries < maxRetries /\ ~w.xResolved

\* a teardown that forgets the onUpdated listener when the timer resolves
TornDownButListening(w, by) ==
  [w EXCEPT !.rResolved = TRUE, !.rTimer = Unset, !.rBy = by,
            !.rListening = (by = "timer")]

\* lines 160-161, 168-170, 181-183: resolved = true, the timer is cleared (or
\* has fired), the onUpdated listener is removed
TornDown(w, by) ==
  [w EXCEPT !.rResolved = TRUE, !.rTimer = Unset, !.rListening = FALSE, !.rBy = by]

\* a readiness wait that lets the execution go on after its timeout
ReadySignalAnyway(r, by, now) ==
  IF r.wait.rResolved THEN r
  ELSE [r EXCEPT !.pc = "extract",
                 !.wait = [TornDown(r.wait, by) EXCEPT
                             !.xListening = TRUE, !.inject = TRUE, !.deadline = now]]

\* One of the three signals of the readiness wait is handled at the instant
\* now (lines 158-188).  Unless the wait is resolved already, the timer
\* rejects it and the other two resolve it; runSite then goes on to line 193:
\* the message listener is added, executeScript is called and the deadline
\* timer is set (a delay below zero is a delay of zero).
ReadySignal(r, by, now) ==
  LET w == TornDown(r.wait, by)
      delay == (r.site.timeoutSec - MarginSec) * MsPerSecond
  IN  IF r.wait.rResolved THEN [r EXCEPT !.wait.rLate = TRUE]
      ELSE IF by = "timer"
      THEN Throw([r EXCEPT !.wait = w], "ready",
                 "Timeout after " \o ToString(r.site.timeoutSec) \o " seconds")
      ELSE [r EXCEPT !.pc = "extract",
                     !.wait = [w EXCEPT !.xListening = TRUE, !.inject = TRUE,
                                        !.deadline = now + (IF delay < 0 THEN 0 ELSE delay)]]

\* variant: a cleanup that leaves the message listener registered
cleanupKeepsListener(w, now) ==
  IF ~w.xResolved
  THEN [w EXCEPT !.xResolved = TRUE, !.xEnd = now]
  ELSE w

\* lines 196-201
cleanup(w, now) ==
  IF ~w.xResolved
  THEN [w EXCEPT !.xResolved = TRUE, !.xListening = FALSE, !.xEnd = now]
  ELSE w

\* variant: a promise that can be settled again
SettleAgain(r, step, message, now) ==
  LET q == [r EXCEPT !.wait = cleanup(r.wait, now)]
      u == EffectiveApiUrl(r.apiUrl)
  IN  IF step # "payload" THEN Throw(q, step, message)
      ELSE IF EndpointAccepted(u) THEN [q EXCEPT !.pc = "fetch", !.fetched = TRUE]
      ELSE Throw(q, "validate", "Invalid API URL format: " \o u)

\* cleanup() and then resolve(payload) (step "payload") or reject(new
\* Error(message)), at the instant now: a promise that is settled stays as it
\* is; a payload takes runSite on to the endpoint check and the fetch call of
\* lines 253-272, a rejection to the catch block.
Settle(r, step, message, now) ==
  LET q == [r EXCEPT !.wait = cleanup(r.wait, now)]
      u == EffectiveApiUrl(r.apiUrl)
  IN  IF r.wait.xResolved THEN r
      ELSE IF step # "payload" THEN Throw(q, step, message)
      ELSE IF EndpointAccepted(u) THEN [q EXCEPT !.pc = "fetch", !.fetched = TRUE]
      ELSE Throw(q, "validate", "Invalid API URL format: " \o u)

\* lines 150-188: tabs.create has answered with a new tab, which is loading or
\* has completed already; the readiness wait is set up
EngineOpen ==
  LET r == run[1][1]
  IN  /\ r.pc = "create"
      /\ tabSeq' = tabSeq + 1
      /\ tabs' = tabs \cup {tabSeq + 1}
      /\ \E st \in {"loading", "complete"} :
           run' = [run EXCEPT ![1][1] =
             [r EXCEPT !.pc = "ready", !.tabId = tabSeq + 1,
                       !.wait = [IdleWait EXCEPT
                                   !.status = st, !.opened = clock, !.rListening = TRUE,
                                   !.rTimer = clock + r.site.timeoutSec * MsPerSecond,
                                   !.rPoll = TRUE]]]
      /\ UNCHANGED <<clock, settings, state, alarms, boot, installTimer, ini, cyc, opt, events>>

\* the signals of the readiness wait that come from the tab
EngineReady ==
  LET r == run[1][1]
      w == r.wait
  IN  /\ \/ \* the tab completes loading; chrome.tabs.onUpdated will report it
            /\ r.tabId \in tabs /\ w.status = "loading"
            /\ run' = [run EXCEPT ![1][1].wait.status = "complete",
                                  ![1][1].wait.loadEvent = TRUE]
         \/ \* lines 166-173: the onUpdated event is delivered to the listeners
            /\ w.loadEvent
            /\ run' = [run EXCEPT ![1][1] =
                 LET q == [r EXCEPT !.wait.loadEvent = FALSE]
                 IN  IF w.rListening THEN ReadySignal(q, "load", clock) ELSE q]
         \/ \* lines 179-188: tabs.get has answered, or failed for a closed tab
            /\ w.rPoll
            /\ run' = [run EXCEPT ![1][1] =
                 LET q == [r EXCEPT !.wait.rPoll = FALSE]
                 IN  IF r.tabId \in tabs /\ w.status = "complete"
                     THEN ReadySignal(q, "poll", clock) ELSE q]
      /\ UNCHANGED <<clock, settings, state, alarms, tabs, tabSeq, boot, installTimer, ini, cyc, opt, events>>

\* lines 158-164: the timer of the readiness wait fires
EngineReadyTimer ==
  LET r == run[1][1]
  IN  /\ r.wait.rTimer # Unset /\ r.wait.rTimer <= clock
      /\ run' = [run EXCEPT ![1][1] =
           ReadySignal([r EXCEPT !.wait.rTimer = Unset], "timer", clock)]
      /\ UNCHANGED <<clock, settings, state, alarms, tabs, tabSeq, boot, installTimer, ini, cyc, opt, events>>

\* lines 225-226: the 50 ms timer fires and trySendMessage calls
\* tabs.sendMessage
EngineSendTimer ==
  LET w == run[1][1].wait
  IN  /\ w.send = "timer" /\ w.sendDue <= clock
      /\ run' = [run EXCEPT ![1][1].wait =
           [w EXCEPT !.send = "flight", !.sendDue = Unset, !.sends = @ + 1]]
      /\ UNCHANGED <<clock, settings, state, alarms, tabs, tabSeq, boot, installTimer, ini, cyc, opt, events>>

\* lines 217-241: executeScript and tabs.sendMessage have answered
EngineSend ==
  LET r == run[1][1]
      w == r.wait
  IN  /\ \/ \* executeScript resolves: setTimeout(trySendMessage, 50)
            /\ w.inject /\ r.tabId \in tabs
            /\ run' = [run EXCEPT ![1][1].wait =
                 [w EXCEPT !.inject = FALSE, !.send = "timer",
                           !.sendDue = clock + RetryDelayMs]]
         \/ \* executeScript rejects (lines 238-241)
            /\ w.inject
            /\ \E e \in InjectErrors :
                 run' = [run EXCEPT ![1][1] =
                   Settle([r EXCEPT !.wait.inject = FALSE], "inject",
                          "Failed to inject content script: " \o e, clock)]
         \/ \* sendMessage resolves: the request has reached a listener in the
            \* tab, which answers with sendResponse as the listener of
            \* utils/schedule.js 138-148 does ("replied": the answer is the value
            \* of the promise, which has no then) or will answer with a message
            \* of its own ("owed")
            /\ w.send = "flight" /\ r.tabId \in tabs
            /\ \E a \in {"replied", "owed"} :
                 run' = [run EXCEPT ![1][1].wait =
                   [w EXCEPT !.send = "", !.answer = a, !.answerAt = clock]]
         \/ \* sendMessage rejects (lines 227-235)
            /\ w.send = "flight"
            /\ \E e \in SendErrors :
                 run' = [run EXCEPT ![1][1] =
                   IF MayRetry(w)
                   THEN [r EXCEPT !.wait = [w EXCEPT !.failed = @ + 1, !.retries = @ + 1,
                                                     !.send = "timer",
                                                     !.sendDue = clock + RetryDelayMs]]
                   ELSE Settle([r EXCEPT !.wait = [w EXCEPT !.failed = @ + 1, !.send = ""]],
                               "send", "Failed to send message to content script: " \o e,
                               clock)]
      /\ UNCHANGED <<clock, settings, state, alarms, tabs, tabSeq, boot, installTimer, ini, cyc, opt, events>>

\* lines 203-213: a COLLECT_RESULT message from the tab arrives at
\* chrome.runtime.onMessage, with a payload or with an error text
EngineMessage ==
  LET r == run[1][1]
  IN  /\ r.wait.answer = "owed" /\ r.tabId \in tabs
      /\ \E a \in {<<"payload", "">>} \cup { <<"extract", e>> : e \in EngineCollectErrors } :
           run' = [run EXCEPT ![1][1] =
             LET q == [r EXCEPT !.wait.answer = IF a[1] = "payload" THEN "payload" ELSE "error"]
             IN  IF r.wait.xListening THEN Settle(q, a[1], a[2], clock) ELSE q]
      /\ UNCHANGED <<clock, settings, state, alarms, tabs, tabSeq, boot, installTimer, ini, cyc, opt, events>>

\* lines 245-250: the deadline timer fires
EngineDeadline ==
  LET r == run[1][1]
  IN  /\ r.wait.deadline # Unset /\ r.wait.deadline <= clock
      /\ run' = [run EXCEPT ![1][1] =
           Settle([r EXCEPT !.wait.deadline = Unset], "deadline", "Content script timeout",
                  clock)]
      /\ UNCHANGED <<clock, settings, state, alarms, tabs, tabSeq, boot, installTimer, ini, cyc, opt, events>>

\* time passes: by ten seconds, or up to the next instant at which a timer is
\* due if that is sooner
EngineTime ==
  LET w == run[1][1].wait
      due == { t \in {w.rTimer, w.deadline, w.sendDue} : t # Unset }
      step == 10 * MsPerSecond
  IN  /\ IF \A t \in due : clock + step < t
         THEN /\ due # {} \/ clock + step <= StartClock + MaxEngineSec * MsPerSecond
              /\ clock' = clock + step
         ELSE \E t \in due : (\A e \in due : t <= e) /\ t > clock /\ clock' = t
      /\ UNCHANGED <<settings, state, alarms, tabs, tabSeq, boot, installTimer, ini, cyc, run, opt, events>>

\* the steps that come of themselves: time, the three timers, and the answers of the
\* storage, of tabs.create and of tabs.remove
EngineOwnSteps ==
  \/ EngineTime
  \/ EngineReadyTimer \/ EngineSendTimer \/ EngineDeadline
  \/ EngineOpen
  \/ RunLookup(1, 1)
  \/ RunNotFoundGet(1, 1) \/ RunNotFoundSet(1, 1)
  \/ RunOkGet(1, 1) \/ RunOkSet(1, 1)
  \/ RunCatchGet(1, 1) \/ RunCatchSet(1, 1)
  \/ RunClose(1, 1)
  \/ CycleResume(1)

NextEngine ==
  \/ EngineOwnSteps
  \/ EngineReady
  \/ EngineSend
  \/ EngineMessage
  \/ RunCreateFails(1, 1)
  \/ RunFetchOk(1, 1)
  \/ RunFetchFails(1, 1)

SpecEngine == InitEngine /\ [][NextEngine]_vars

\* the scheduling of the engine: a timer that is due fires, time goes on, and
\* the storage, tabs.create and tabs.remove answer; the page, the extraction
\* collaborator and the submission endpoint owe nothing
FairEngine == SpecEngine /\ WF_vars(EngineOwnSteps)

Over(r) == r.pc \in {"returned", "threw"}

\* C12: every execution terminates.  The execution that was started
\* eventually is over with its outcome written, whatever the page, the
\* extraction collaborator and the submission endpoint do or fail to do.
C12_EveryExecutionEnds == <>(Over(run[1][1]) /\ run[1][1].writes > 0)

\* what does hold under FairEngine: the execution is over or reaches the
\* submission call
EndsOrSubmits == <>(Over(run[1][1]) \/ run[1][1].pc = "fetch")

\* C13: the extraction response is delivered.  When the collect request has
\* reached the collaborator and the collaborator has answered it with
\* sendResponse, as the listener of utils/schedule.js does, before the
\* extraction wait was over, the wait does not end in the handshake timeout
\* 'Content script timeout'.
C13_AnswerDelivered ==
  LET r == run[1][1]
  IN  ~(/\ r.wait.answer = "replied"
        /\ r.wait.answerAt < r.wait.xEnd
        /\ r.failedAt = "deadline")

HasSecret(s) == \E p \in 1..Len(s) : MatchLen(s, p) > 0

\* C14: error sanitization on every failure path.  Every lastError in the
\* state store has at most 100 characters and none of the secret words in
\* it.  The lastError an execution has written is: 100 characters long if
\* the raw text had more than 100; the first 100 characters of the raw text
\* if that held no secret word; and otherwise the raw text up to its first
\* secret word followed by the redaction marker, as far as 100 characters
\* reach.
C14_SanitizedLastError ==
  /\ \A id \in DOMAIN state.bySite :
       \A i \in 1..Len(state.bySite[id].lastError) :
          /\ Len(state.bySite[id].lastError[i]) <= MaxErrorLen
          /\ ~HasSecret(state.bySite[id].lastError[i])
  /\ \A c \in Cycles, k \in Slots :
       (run[c][k].writes > 0 /\ run[c][k].failedAt # "") =>
         \E e \in {run[c][k].written.lastError[1]}, p \in {NextMatch(run[c][k].err, 1)} :
            /\ Len(run[c][k].err) > MaxErrorLen => Len(e) = MaxErrorLen
            /\ Len(run[c][k].err) <= MaxErrorLen => Len(e) >= Len(run[c][k].err)
            /\ p = 0 => \A j \in 1..Len(e) : CharAt(e, j) = CharAt(run[c][k].err, j)
            /\ p > 0 =>
                 \A j \in 1..Len(e) :
                    /\ j < p => CharAt(e, j) = CharAt(run[c][k].err, j)
                    /\ (p <= j /\ j < p + Len(RedactionMarker))
                         => CharAt(e, j) = CharAt(RedactionMarker, j - p + 1)

\* a text of more than 100 characters with secret words in it has been
\* stored with 100 characters
C14_Witness ==
  /\ run[1][1].writes > 0 /\ run[1][1].failedAt = "extract"
  /\ Len(run[1][1].err) > MaxErrorLen /\ HasSecret(run[1][1].err)
  /\ Len(run[1][1].written.lastError[1]) = MaxErrorLen
  /\ state.bySite["a"].lastError = run[1][1].written.lastError

\* C15, as stated: nextRunAt is always defined.  When the reconciliation of
\* a wake cycle has written the state, every target of the settings in the
\* store has a RunState entry in the store.
C15_EveryConfiguredTargetHasEntry ==
  [][\A c \in Cycles :
       IniSetState(c) => (DOMAIN settings'.sites) \subseteq (DOMAIN state'.bySite)]_vars

\* C15, amended: every RunState entry in the state store has a nextRun, at
\* all times; the state a reconciliation writes and returns has an entry
\* with a nextRun for every target of the settings that reconciliation read;
\* and so has the snapshot a wake cycle selects from.
C15_NextRunDefined ==
  /\ \A id \in DOMAIN state.bySite : state.bySite[id].nextRun # Unset
  /\ \A o \in Callers :
       ini[o].pc \in {"setSettings", "setState", "done"} =>
         \A id \in DOMAIN ini[o].settings.sites :
            id \in DOMAIN ini[o].bySite /\ ini[o].bySite[id].nextRun # Unset
  /\ \A c \in Cycles :
       cyc[c].pc \in {"await", "done", "aborted"} =>
         \A id \in DOMAIN cyc[c].sites :
            id \in DOMAIN cyc[c].bySite /\ cyc[c].bySite[id].nextRun # Unset

\* the reconciliation of a wake cycle has added an entry and written it
C15_Witness ==
  \E c \in Cycles :
     /\ ini[c].pc = "done" /\ ini[c].added # {}
     /\ \A id \in ini[c].added :
          id \in DOMAIN state.bySite /\ state.bySite[id].nextRun > ini[c].now

\* C16: at-most-one resolution of the readiness wait.  The signal that
\* resolved the wait decides: the load event or the status poll lets the
\* execution go on to the extraction, the timer fails it with the timeout;
\* from the resolution on the onUpdated listener is removed and the timer
\* cleared; and no later step changes which signal resolved the wait or
\* turns the one outcome into the other.
C16_ReadinessResolvedOnce ==
  /\ [](LET r == run[1][1]
             w == r.wait
         IN  /\ w.rResolved <=> w.rBy \in {"load", "poll", "timer"}
             /\ w.rResolved => ~w.rListening /\ w.rTimer = Unset
             /\ w.rBy = "timer" <=> r.failedAt = "ready"
             /\ r.wait.xListening \/ r.wait.xResolved => w.rBy \in {"load", "poll"})
  /\ [][run[1][1].wait.rResolved =>
          /\ run'[1][1].wait.rResolved
          /\ run'[1][1].wait.rBy = run[1][1].wait.rBy]_vars

\* the timer has failed the wait, and the status poll that answered
\* afterwards has changed nothing
C16_Witness ==
  /\ run[1][1].wait.rBy = "timer" /\ run[1][1].wait.rLate
  /\ run[1][1].failedAt = "ready" /\ run[1][1].wait.status = "complete"
  /\ run[1][1].wait.xEnd = Unset

\* C17, as stated: bounded handshake retry.  The extraction request is sent
\* at most 5 times in one execution, and the failure to send is reported
\* when 5 sends have failed.
C17_FiveAttempts ==
  /\ run[1][1].wait.sends <= 5
  /\ run[1][1].failedAt = "send" => run[1][1].wait.failed = 5

\* C17, amended: the extraction request is sent at most 6 times, the first
\* attempt and up to maxRetries = 5 retries; a retry is due 50 ms after the
\* send before it failed and is scheduled only while the extraction wait is
\* open; after a send that succeeded nothing more is sent and no failure to
\* send is reported; the failure to send is reported only when 6 sends have
\* failed, and 6 failed sends leave the execution failed, by that report or
\* by the deadline that ended the wait before.
C17_BoundedRetry ==
  /\ [](LET r == run[1][1]
             w == r.wait
         IN  /\ w.sends <= maxRetries + 1
             /\ w.retries <= maxRetries /\ w.failed <= w.sends
             /\ r.failedAt = "send" => w.failed = maxRetries + 1 /\ w.answer = ""
             /\ w.failed = maxRetries + 1 => r.failedAt \in {"send", "deadline"}
             /\ w.answer # "" => w.send = "" /\ w.sendDue = Unset /\ r.failedAt # "send")
  /\ [][LET w == run[1][1].wait
            v == run'[1][1].wait
        IN  /\ v.retries > w.retries =>
                 /\ ~w.xResolved /\ v.failed = w.failed + 1 /\ v.retries = w.retries + 1
                 /\ v.send = "timer" /\ v.sendDue = clock + RetryDelayMs
            /\ v.sends > w.sends => v.sends = w.sends + 1 /\ w.sendDue = clock
            /\ w.answer # "" => v.sends = w.sends]_vars

\* five sends have failed, the sixth has succeeded, and the payload the
\* collaborator then sent has taken the execution on to the submission
C17_Witness ==
  /\ run[1][1].wait.failed = maxRetries /\ run[1][1].wait.sends = maxRetries + 1
  /\ run[1][1].wait.answer = "payload" /\ run[1][1].fetched

\* C18: overall time bound.  When the extraction wait of an execution has
\* been resolved, by a payload, an error, a failure to inject or to send, or
\* the deadline, no more than timeoutSec seconds have passed since the tab
\* was opened.
C18_WithinTimeout ==
  run[1][1].wait.xEnd # Unset =>
    run[1][1].wait.xEnd - run[1][1].wait.opened <= run[1][1].site.timeoutSec * MsPerSecond

\* the steps of runSite in their order: created, session open, ready and
\* extracting, submitting, outcome being recorded, session being released,
\* over
PcRank ==
  [lookup |-> 0, create |-> 0, ready |-> 1, extract |-> 2, fetch |-> 3,
   nfGet |-> 4, nfSet |-> 4, okGet |-> 4, okSet |-> 4, catchGet |-> 4, catchSet |-> 4,
   closing |-> 5, returned |-> 6, threw |-> 6]

\* C19: execution step ordering.  An execution never steps back in the
\* order of its steps; the extraction request is sent only after the load
\* event or the status poll has reported the tab ready; fetch is called only
\* after a payload message has resolved the extraction wait; lastStatus ok
\* is written only by an execution whose fetch has answered with a success
\* status; and the tab is closed only after the outcome has been written.
C19_StepOrder ==
  /\ [](LET r == run[1][1]
             w == r.wait
         IN  /\ w.sends > 0 \/ w.inject => w.rBy \in {"load", "poll"}
             /\ r.fetched => w.answer = "payload" /\ w.xEnd # Unset /\ w.sends > 0
             /\ r.pc \in {"okGet", "okSet"} => r.fetched /\ r.failedAt = ""
             /\ r.written.lastStatus = "ok" => r.fetched /\ r.failedAt = ""
             /\ r.failedAt # "" => r.written.lastStatus # "ok"
             /\ r.closed \/ (r.tabId # NoTab /\ r.tabId \notin tabs) => r.writes = 1)
  /\ [][LET r == run[1][1]
            q == run'[1][1]
        IN  /\ PcRank[q.pc] >= PcRank[r.pc]
            /\ (q.pc = "okGet" /\ r.pc # "okGet") => r.pc = "fetch"
            /\ (q.pc = "fetch" /\ r.pc # "fetch") => r.pc = "extract"
            /\ (q.pc = "extract" /\ r.pc # "extract") => r.pc = "ready"
            /\ q.writes > r.writes => r.pc \in {"nfSet", "okSet", "catchSet"}]_vars

\* an execution has gone through all the steps and is over with lastStatus
\* ok written and its tab closed
C19_Witness ==
  /\ run[1][1].pc = "returned" /\ run[1][1].closed /\ run[1][1].tabId \notin tabs
  /\ run[1][1].written.lastStatus = "ok" /\ state.bySite["a"].lastStatus = "ok"
  /\ run[1][1].fetched /\ run[1][1].wait.sends > 0
  /\ run[1][1].wait.rBy \in {"load", "poll"}

\* C20: runSite for an id that settings no longer holds opens no tab and,
\* once it has returned, has written exactly one RunState for that id, the one
\* of a failure: nextRun an hour after now, lastStatus fail, failCount one
\* above the count stored when runSite was called (1 without a stored count),
\* lastRun = now and lastError = the not-found message; it never ends without
\* that write.
C20_MissingTargetRecorded ==
  \A c \in Cycles, k \in Slots :
    LET r == run[c][k]
    IN  r.failedAt = "lookup" =>
          /\ r.tabId = NoTab
          /\ r.wait.opened = Unset
          /\ r.fetched = FALSE
          /\ r.pc \in {"nfGet", "nfSet", "returned"}
          /\ r.pc = "returned" =>
                /\ r.writes = 1
                /\ r.now <= clock
                /\ r.written =
                     [nextRun |-> r.now + 3600000, lastStatus |-> "fail",
                      failCount |-> (IF r.prevFail = Unset THEN 0 ELSE r.prevFail) + 1,
                      lastRun |-> r.now, lastError |-> <<"Site not found in settings">>]

\* the missing target had failed twice before; its third failure is in the store
C20_Witness ==
  /\ run[1][1].failedAt = "lookup"
  /\ run[1][1].pc = "returned"
  /\ run[1][1].prevFail = 2
  /\ "a" \notin DOMAIN settings.sites
  /\ tabSeq = 0
  /\ state.bySite["a"] = run[1][1].written
  /\ state.bySite["a"].failCount = 3

\* C21: a rejected tabs.remove is swallowed.  The step in which tabs.remove
\* answers changes neither the state document nor the record the execution
\* wrote; an execution whose tabs.remove was rejected has returned normally
\* with its one record written (ok with failCount 0, or fail), and its cycle
\* is not aborted: the loop awaits a later target or has ended.
C21_ReleaseFailureSwallowed ==
  /\ [](\A c \in Cycles, k \in Slots :
          run[c][k].closeFailed =>
            /\ run[c][k].pc = "returned"
            /\ run[c][k].writes = 1
            /\ run[c][k].written.lastStatus = (IF run[c][k].failedAt = "" THEN "ok" ELSE "fail")
            /\ run[c][k].written.lastStatus = "ok" => run[c][k].written.failCount = 0
            /\ cyc[c].pc \in {"await", "done"}
            /\ cyc[c].pc = "await" => cyc[c].idx >= k)
  /\ [][\A c \in Cycles, k \in Slots :
          (run[c][k].pc = "closing" /\ run'[c][k].pc # "closing") =>
            /\ state' = state
            /\ run'[c][k].written = run[c][k].written
            /\ run'[c][k].writes = run[c][k].writes]_vars

\* a successful execution of a whose tab was gone when it was to be closed
\* is followed by the execution of b
C21_Witness ==
  \E c \in Cycles :
    /\ run[c][1].closeFailed
    /\ run[c][1].id = "a"
    /\ run[c][1].written.lastStatus = "ok"
    /\ run[c][1].written.failCount = 0
    /\ run[c][2].id = "b"
    /\ run[c][2].pc = "returned"

\* C22: deterministic dispatch order.  When a cycle has started the
\* execution of a target b, every target a with a < b in the order of
\* Array.prototype.sort() that the cycle's snapshot selects has been executed
\* by this cycle and that execution is over, whatever the order in which the
\* targets were added to the settings.
C22_AscendingOrder ==
  \A c \in Cycles, k \in Slots :
    run[c][k].pc # "idle" =>
      \A a \in DOMAIN cyc[c].sites :
        (/\ a # run[c][k].id
         /\ Selected(cyc[c].sites, cyc[c].bySite, cyc[c].now, a)
         /\ StrLess(a, run[c][k].id))
          => \E j \in Slots : /\ run[c][j].id = a
                              /\ Over(run[c][j])

\* b was added before a; the cycle executes b after a has returned
C22_Witness ==
  \E c \in Cycles, j \in Slots, k \in Slots :
    /\ settings.exists
    /\ settings.order = <<"b", "a">>
    /\ run[c][j].id = "a"
    /\ run[c][j].pc = "returned"
    /\ run[c][k].id = "b"
    /\ InFlight(run[c][k])

\* C23: wake triggers.  A cycle is started only by the alarm firing or by
\* the timer of the first install, which only the onInstalled listener with
\* reason install sets, once; the listeners of onStartup and onInstalled
\* themselves start no cycle and no execution; once such a listener has
\* completed, exactly the alarm hourly-check is registered.
C23_WakeTriggers ==
  /\ [](/\ installTimer => boot = [pc |-> "idle", reason |-> "install"]
        /\ boot.pc = "idle" => DOMAIN alarms = {AlarmName})
  /\ [][/\ (\E c \in Cycles : cyc[c].pc = "idle" /\ cyc'[c].pc # "idle") =>
             \/ /\ AlarmName \in DOMAIN alarms
                /\ alarms[AlarmName] <= clock
                /\ alarms'[AlarmName] = clock + 60 * 60000
                /\ installTimer' = installTimer
             \/ /\ installTimer /\ ~installTimer'
                /\ boot.reason = "install"
                /\ alarms' = alarms
        /\ boot' # boot => (cyc' = cyc /\ run' = run /\ boot.pc # "idle")
        /\ (~installTimer /\ installTimer') => boot = [pc |-> "init", reason |-> "install"]]_vars

\* the onInstalled listener has completed for an update: the alarm is
\* registered, no first run is pending, and the alarm has started a cycle
C23_Witness ==
  /\ boot = [pc |-> "idle", reason |-> "update"]
  /\ ~installTimer
  /\ DOMAIN alarms = {AlarmName}
  /\ alarms[AlarmName] = StartClock + 2 * 60 * 60000
  /\ cyc[1].pc # "idle"
  /\ cyc[2].pc = "idle"

\* C24: no lost updates on the state document.  A RunState entry that an
\* execution has written (lastStatus ok or fail) is changed or removed only
\* by a step in which an execution of the same target writes its record, or
\* in which the target is deleted from settings and state together.
C24_NoLostUpdate ==
  [][\A id \in DOMAIN state.bySite :
       (/\ state.bySite[id].lastStatus \in {"ok", "fail"}
        /\ \/ id \notin DOMAIN state'.bySite
           \/ state'.bySite[id] # state.bySite[id])
         => \/ \E c \in Cycles, k \in Slots :
                 /\ run[c][k].id = id
                 /\ run'[c][k].writes = run[c][k].writes + 1
                 /\ state'.bySite[id] = run'[c][k].written
            \/ /\ id \notin DOMAIN state'.bySite
               /\ id \in DOMAIN settings.sites
               /\ id \notin DOMAIN settings'.sites]_vars

\* C25: no orphan run state.  In every reachable state every id that has a
\* RunState entry in the state document is a target of the settings.
C25_NoOrphanRunState ==
  \A id \in DOMAIN state.bySite : id \in DOMAIN settings.sites

\* C26: status coherence.  Every RunState entry of the state document is
\* never executed (lastStatus, failCount, lastRun and lastError unset), or ok
\* with failCount 0 and no lastError, or fail with failCount >= 1 and a
\* non-empty lastError; lastRun is set exactly when lastStatus is.
C26_StatusCoherence ==
  \A id \in DOMAIN state.bySite :
    LET e == state.bySite[id]
    IN  /\ \/ e.lastStatus = "unset" /\ e.failCount = Unset /\ e.lastError = <<>>
           \/ e.lastStatus = "ok" /\ e.failCount = 0 /\ e.lastError = <<>>
           \/ e.lastStatus = "fail" /\ e.failCount >= 1 /\ Len(e.lastError) = 1
                                   /\ Len(e.lastError[1]) > 0
        /\ (e.lastRun # Unset) <=> (e.lastStatus # "unset")

\* the store holds an ok record and a fail record
C26_Witness ==
  /\ state.exists
  /\ \E x \in DOMAIN state.bySite, y \in DOMAIN state.bySite :
       /\ state.bySite[x].lastStatus = "ok"
       /\ state.bySite[x].lastRun >= StartClock
       /\ state.bySite[y].lastStatus = "fail"
       /\ state.bySite[y].failCount >= 1

\* C27: exactly one outcome per execution.  No execution writes its
\* target's RunState more than once and a written record is never replaced
\* by the same execution; an execution that is over has written exactly one
\* record, an ok record if no step failed and a fail record otherwise.
C27_OneOutcome ==
  /\ [](\A c \in Cycles, k \in Slots :
          /\ run[c][k].writes <= 1
          /\ Over(run[c][k]) =>
                /\ run[c][k].writes = 1
                /\ run[c][k].written.lastStatus =
                     (IF run[c][k].failedAt = "" THEN "ok" ELSE "fail"))
  /\ [][\A c \in Cycles, k \in Slots :
          run[c][k].writes = 1 =>
            /\ run'[c][k].written = run[c][k].written
            /\ run'[c][k].failedAt = run[c][k].failedAt]_vars

\* the deadline timer has fired after the payload had resolved the
\* extraction wait; the execution has returned with its ok record
C27_Witness ==
  /\ run[1][1].pc = "returned"
  /\ run[1][1].writes = 1
  /\ run[1][1].written.lastStatus = "ok"
  /\ run[1][1].wait.answer = "payload"
  /\ run[1][1].wait.xEnd # Unset
  /\ run[1][1].wait.deadline = Unset

\* C28: no leaked subscriptions.  The onUpdated listener of an execution is
\* registered only while the execution is in its readiness wait and the
\* onMessage listener only while it is in its extraction wait, so neither is
\* registered when the execution is over, on whatever path it ended; and no
\* step changes the course or the record of an execution that is over.
C28_NoLeakedListener ==
  /\ [](\A c \in Cycles, k \in Slots :
          /\ run[c][k].wait.rListening => run[c][k].pc = "ready"
          /\ run[c][k].wait.xListening => run[c][k].pc = "extract"
          /\ Over(run[c][k]) => (~run[c][k].wait.rListening /\ ~run[c][k].wait.xListening))
  /\ [][\A c \in Cycles, k \in Slots :
          Over(run[c][k]) =>
            /\ run'[c][k].pc = run[c][k].pc
            /\ run'[c][k].written = run[c][k].written
            /\ run'[c][k].failedAt = run[c][k].failedAt]_vars

\* the deadline ended the extraction wait and the collaborator's message
\* came after it; the execution has returned with the timeout recorded
C28_Witness ==
  /\ run[1][1].pc = "returned"
  /\ run[1][1].failedAt = "deadline"
  /\ run[1][1].wait.answer \in {"payload", "error"}
  /\ run[1][1].wait.answerAt # Unset
  /\ ~run[1][1].wait.rListening
  /\ ~run[1][1].wait.xListening
  /\ run[1][1].written.lastError = <<"Content script timeout">>

\* C29: the extraction deadline leaves room to succeed.  When the readiness
\* wait resolves and the extraction wait begins, the deadline timer is set to
\* an instant later than the earliest instant of the first sendMessage call,
\* which is made 50 ms after executeScript has answered.
C29_DeadlineAfterFirstSend ==
  [][(run[1][1].pc = "ready" /\ run'[1][1].pc = "extract")
       => run'[1][1].wait.deadline > clock + RetryDelayMs]_vars

\* C30: the recorded nextRun lies in the future.  In the step in which an
\* execution writes its record, the nextRun it records is later than the
\* instant of that step.
C30_NextRunAfterWrite ==
  [][\A c \in Cycles, k \in Slots :
       run'[c][k].writes = run[c][k].writes + 1
         => run'[c][k].written.nextRun > clock]_vars

\* C30 as the code has it: the recorded nextRun is later than the instant
\* now that runSite took when it was called, which is the lastRun recorded
\* with it and not after the instant of the write.
C30_NextRunAfterStart ==
  \A c \in Cycles, k \in Slots :
    run[c][k].writes = 1 =>
      /\ run[c][k].written.lastRun = run[c][k].now
      /\ run[c][k].written.nextRun > run[c][k].now
      /\ run[c][k].now <= clock

\* an execution has written, an hour after it was called, a nextRun that
\* is not after the instant of the write
C30_Witness ==
  \E c \in Cycles, k \in Slots :
    /\ run[c][k].writes = 1
    /\ run[c][k].written.nextRun > run[c][k].written.lastRun
    /\ run[c][k].written.nextRun <= clock
    /\ state.bySite[run[c][k].id] = run[c][k].written

====
